---- MODULE Spec2Model ----
(***************************************************************************)
(* Model of garmin_health.py: the pure aggregator get_average_respiration  *)
(* and the linear run of sync_health against its two external services     *)
(* (Garmin Connect: login / get_heart_rates / get_respiration_data;        *)
(* Notion: pages.create).                                                  *)
(*                                                                         *)
(* Python values are represented as follows.                               *)
(*   None / a value v   : the tuples <<>> and <<v>>                        *)
(*   a dict             : a set of <<key, value>> pairs, values optional   *)
(*   a list             : a sequence                                       *)
(*   a number in a sample: PyInt(n), or PyFloat(n, d) for the float       *)
(*                        written as the decimal n/d                       *)
(*   a computed float   : the double itself, <<M, E>> for M * 2^E with M   *)
(*                        of exactly 53 bits (zero: M = 0), M held as a     *)
(*                        sequence of 15-bit limbs, lowest first            *)
(*   a number sent to Notion: the decimal <<num, den>> in lowest terms     *)
(*   a date             : <<year, month, day>>                             *)
(***************************************************************************)
EXTENDS Integers, Sequences, FiniteSets, TLC

VARIABLES
    env,              \* os.environ: name -> None | Some(string)
    dotenv,           \* the .env file: name -> None | Some(string)
    clock,            \* the calendar date date.today() would return now
    ticks,            \* midnights passed since the run started
    pc,               \* position of the run inside sync_health
    error,            \* the exception that left sync_health, "" if none
    garmin_email, garmin_password, notion_token,   \* locals, lines 38-40
    heart_db_id, resp_db_id,                       \* locals, lines 41-42
    today_str,        \* local, line 52
    hr_data,          \* local, lines 56/59
    resp_data,        \* local, lines 76/79
    avg_resp,         \* local, line 82
    calls,            \* Garmin client calls made so far, in order
    creates,          \* notion.pages.create calls made so far, in order
    pages             \* rows that exist in Notion (created by this run)

vars == <<env, dotenv, clock, ticks, pc, error, garmin_email, garmin_password,
          notion_token, heart_db_id, resp_db_id, today_str, hr_data,
          resp_data, avg_resp, calls, creates, pages>>

----------------------------------------------------------------------------
(* Bounds of the model *)

\* longest list of arbitrary entries given to get_average_respiration alone
MaxLen == 3
\* longest list of arbitrary entries that get_respiration_data returns in a run
MaxFetchLen == 2
\* midnights that may pass during a run
MaxTicks == 1

----------------------------------------------------------------------------
(* Python values *)

None == <<>>
Some(v) == <<v>>

\* significant binary digits of a Python float
MantissaBits == 53

\* numbers too long for one integer are held in limbs of LimbBits bits
LimbBits == 15
LimbBase == 32768

\* dict.get(key): the value stored under key, None when the key is absent
Get(d, key) ==
    IF \E p \in d : p[1] = key
    THEN (CHOOSE p \in d : p[1] = key)[2]
    ELSE None

\* truth value of a dict or list held in a variable that may also be None
TruthyDict(x) == x # None /\ x[1] # {}
TruthyList(x) == x # None /\ Len(x[1]) > 0
\* truth value of an optional string (os.getenv result)
TruthyStr(x) == x # None /\ x[1] # ""
\* truth value of an optional number
TruthyNum(x) == x # None /\ x[1] # 0

RECURSIVE GCD(_, _)
GCD(a, b) == IF b = 0 THEN a ELSE GCD(b, a % b)

\* the decimal a / b in lowest terms
Decimal(a, b) == LET g == GCD(a, b) IN <<a \div g, b \div g>>

\* an int sent to Notion
Num(n) == <<n, 1>>

----------------------------------------------------------------------------
(* Natural numbers of any length: sequences of limbs, lowest first, the     *)
(* highest limb not zero; <<>> is zero                                      *)

RECURSIVE Pow2(_)
Pow2(k) == IF k = 0 THEN 1 ELSE 2 * Pow2(k - 1)

RECURSIVE IntBitLen(_)
IntBitLen(n) == IF n = 0 THEN 0 ELSE 1 + IntBitLen(n \div 2)

RECURSIVE BigFromInt(_)
BigFromInt(n) ==
    IF n = 0 THEN <<>> ELSE <<n % LimbBase>> \o BigFromInt(n \div LimbBase)

RECURSIVE BigToInt(_)
BigToInt(x) == IF x = <<>> THEN 0 ELSE Head(x) + LimbBase * BigToInt(Tail(x))

RECURSIVE BigTrim(_)
BigTrim(x) ==
    IF x # <<>> /\ x[Len(x)] = 0 THEN BigTrim(SubSeq(x, 1, Len(x) - 1)) ELSE x

RECURSIVE BigAddCarry(_, _, _)
BigAddCarry(x, y, carry) ==
    IF x = <<>> /\ y = <<>> THEN (IF carry = 0 THEN <<>> ELSE <<carry>>)
    ELSE LET a == IF x = <<>> THEN 0 ELSE Head(x)
             b == IF y = <<>> THEN 0 ELSE Head(y)
             sum == a + b + carry
         IN <<sum % LimbBase>>
            \o BigAddCarry(IF x = <<>> THEN x ELSE Tail(x),
                           IF y = <<>> THEN y ELSE Tail(y), sum \div LimbBase)

BigAdd(x, y) == BigAddCarry(x, y, 0)

\* x * k + carry for 0 <= k, carry < LimbBase
RECURSIVE BigMulCarry(_, _, _)
BigMulCarry(x, k, carry) ==
    IF x = <<>> THEN BigFromInt(carry)
    ELSE LET p == Head(x) * k + carry
         IN <<p % LimbBase>> \o BigMulCarry(Tail(x), k, p \div LimbBase)

BigMulSmall(x, k) == BigTrim(BigMulCarry(x, k, 0))

\* <<x \div k, x % k>> for 0 < k < LimbBase
RECURSIVE BigDivLimbs(_, _)
BigDivLimbs(x, k) ==
    IF x = <<>> THEN << <<>>, 0 >>
    ELSE LET high == BigDivLimbs(Tail(x), k)
             cur == high[2] * LimbBase + Head(x)
         IN << <<cur \div k>> \o high[1], cur % k >>

TrimQuotient(qr) == <<BigTrim(qr[1]), qr[2]>>
BigDivSmall(x, k) == TrimQuotient(BigDivLimbs(x, k))

BigBitLen(x) ==
    IF x = <<>> THEN 0 ELSE (Len(x) - 1) * LimbBits + IntBitLen(x[Len(x)])

BigIsOdd(x) == x # <<>> /\ x[1] % 2 = 1

\* x * 2^s
BigShl(x, s) ==
    IF x = <<>> THEN <<>>
    ELSE [i \in 1..(s \div LimbBits) |-> 0] \o BigMulSmall(x, Pow2(s % LimbBits))

\* <<x \div 2^s, whether x % 2^s is not zero>>
ShiftedOut(qr, low) == <<qr[1], qr[2] # 0 \/ low>>
BigShr(x, s) ==
    IF s \div LimbBits >= Len(x) THEN << <<>>, x # <<>> >>
    ELSE ShiftedOut(BigDivSmall(SubSeq(x, s \div LimbBits + 1, Len(x)),
                                Pow2(s % LimbBits)),
                    \E i \in 1..(s \div LimbBits) : x[i] # 0)

\* qr[1] + qr[2]/2 (+ a little when more is set) to the nearest integer, a tie
\* to the even one
HalfEven(qr, more) ==
    IF qr[2] = 1 /\ (more \/ BigIsOdd(qr[1])) THEN BigAdd(qr[1], <<1>>) ELSE qr[1]
HalfShifted(y, more) == HalfEven(BigDivSmall(y[1], 2), y[2] \/ more)

\* x / 2^s to the nearest integer, a tie to the even one; more says that the
\* number divided is a little larger than x
BigShrRound(x, s, more) ==
    IF s = 0 THEN x ELSE HalfShifted(BigShr(x, s - 1), more)

----------------------------------------------------------------------------
(* Python floats (IEEE doubles, non-negative, round to nearest even)        *)

FloatZero == << <<>>, 0 >>

\* m * 2^e for m of MantissaBits or MantissaBits + 1 bits
Renormalise(m, e) ==
    IF BigBitLen(m) > MantissaBits THEN <<BigDivSmall(m, 2)[1], e + 1>> ELSE <<m, e>>

\* the double nearest to x * 2^e for x of len bits (a little more than x when
\* more is set, which needs len > MantissaBits + 1)
RoundOfLen(x, len, e, more) ==
    IF len = 0 THEN FloatZero
    ELSE IF len <= MantissaBits
    THEN <<BigShl(x, MantissaBits - len), e - (MantissaBits - len)>>
    ELSE Renormalise(BigShrRound(x, len - MantissaBits, more),
                     e + (len - MantissaBits))

RoundToDouble(x, e, more) == RoundOfLen(x, BigBitLen(x), e, more)

\* the double nearest to (x * 2^e) / d, computed with k more binary digits
RoundQuotient(qr, e) == RoundToDouble(qr[1], e, qr[2] # 0)
DivideShifted(x, e, d, k) == RoundQuotient(BigDivSmall(BigShl(x, k), d), e - k)

\* float(n) for an int n >= 0
FloatFromInt(n) == RoundToDouble(BigFromInt(n), 0, FALSE)

\* n / d for ints n >= 0, 0 < d < LimbBase (true division, and the value of a
\* float written as the decimal n/d)
FloatFromRatio(n, d) ==
    DivideShifted(BigFromInt(n), 0, d, MantissaBits + 3 + IntBitLen(d))

\* a + b for two floats
FloatAdd(a, b) ==
    IF a[1] = <<>> THEN b
    ELSE IF b[1] = <<>> THEN a
    ELSE LET e == IF a[2] < b[2] THEN a[2] ELSE b[2]
         IN RoundToDouble(BigAdd(BigShl(a[1], a[2] - e), BigShl(b[1], b[2] - e)),
                          e, FALSE)

\* a / count for a float a and an int 0 < count < LimbBase
FloatDivInt(a, count) == DivideShifted(a[1], a[2], count, 3 + IntBitLen(count))

\* numbers as the samples hold them
PyInt(n) == <<"int", n, 1>>
PyFloat(n, d) == <<"float", n, d>>
\* a float computed by the program
PyDouble(x) == <<"double", x[1], x[2]>>

\* float(v) for any of the three
ToDouble(v) ==
    IF v[1] = "int" THEN FloatFromInt(v[2])
    ELSE IF v[1] = "float" THEN FloatFromRatio(v[2], v[3])
    ELSE <<v[2], v[3]>>

\* a + b as Python adds when a or b is a float
PyFloatAdd(a, b) == PyDouble(FloatAdd(ToDouble(a), ToDouble(b)))

\* total / count for an int count > 0: always a float
PyTrueDiv(total, count) ==
    IF total[1] = "int" THEN FloatFromRatio(total[2], count)
    ELSE FloatDivInt(ToDouble(total), count)

\* variant: the digits after the second decimal are cut off
Round2_Truncate(x) ==
    Decimal(BigToInt(BigShr(BigMulSmall(x[1], 100), -x[2])[1]), 100)

\* round(x, 2) for a float 0 <= x < 2^52: the multiple of 1/100 nearest to
\* the double, a tie going to the even multiple
Round2(x) ==
    Decimal(BigToInt(BigShrRound(BigMulSmall(x[1], 100), -x[2], FALSE)), 100)

Pad2(n) == IF n < 10 THEN "0" \o ToString(n) ELSE ToString(n)

\* date.isoformat(): YYYY-MM-DD (years of four digits only)
Isoformat(d) == ToString(d[1]) \o "-" \o Pad2(d[2]) \o "-" \o Pad2(d[3])

DaysIn(y, m) ==
    IF m = 2 THEN (IF y % 4 = 0 /\ (y % 100 # 0 \/ y % 400 = 0) THEN 29 ELSE 28)
    ELSE IF m \in {4, 6, 9, 11} THEN 30 ELSE 31

NextDay(d) ==
    IF d[3] < DaysIn(d[1], d[2]) THEN <<d[1], d[2], d[3] + 1>>
    ELSE IF d[2] < 12 THEN <<d[1], d[2] + 1, 1>>
    ELSE <<d[1] + 1, 1, 1>>

----------------------------------------------------------------------------
(* Inputs *)

StartDay == <<2024, 12, 31>>

RequiredValues == {None, Some(""), Some("secret")}
TableIds == {None, Some(""), Some("db_a"), Some("db_b")}

Environments ==
    [GARMIN_EMAIL : RequiredValues, GARMIN_PASSWORD : RequiredValues,
     NOTION_TOKEN : RequiredValues,
     NOTION_HEART_RATE_DB_ID : TableIds, NOTION_RESPIRATION_DB_ID : TableIds]

\* .env files: no file (or an empty one), one that supplies the account
\* identifier alone, one that supplies all five values
NoDotenv ==
    [GARMIN_EMAIL |-> None, GARMIN_PASSWORD |-> None, NOTION_TOKEN |-> None,
     NOTION_HEART_RATE_DB_ID |-> None, NOTION_RESPIRATION_DB_ID |-> None]
DotenvFiles ==
    { NoDotenv,
      [NoDotenv EXCEPT !.GARMIN_EMAIL = Some("secret")],
      [GARMIN_EMAIL |-> Some("secret"), GARMIN_PASSWORD |-> Some("secret"),
       NOTION_TOKEN |-> Some("secret"),
       NOTION_HEART_RATE_DB_ID |-> Some("db_a"),
       NOTION_RESPIRATION_DB_ID |-> Some("db_b")] }

\* what get_heart_rates may return: None or a dict
HeartRateRecords ==
    { {}, {<<"calendarDate", Some(1)>>},
      {<<"restingHeartRate", None>>},
      {<<"restingHeartRate", Some(0)>>},
      {<<"restingHeartRate", Some(60)>>},
      {<<"restingHeartRate", Some(60)>>, <<"calendarDate", Some(1)>>} }
HeartRateResults == {None} \cup {Some(d) : d \in HeartRateRecords}

\* what get_respiration_data may return: None or a list of dicts
RespirationEntries ==
    { {}, {<<"averageRespirationValue", None>>},
      {<<"averageRespirationValue", Some(PyInt(0))>>},
      {<<"averageRespirationValue", Some(PyInt(14))>>},
      {<<"averageRespirationValue", Some(PyInt(16))>>},
      {<<"averageRespirationValue", Some(PyFloat(1, 10))>>} }
RespirationLists ==
    UNION {[1..n -> RespirationEntries] : n \in 0..MaxLen}
\* lists whose mean lies halfway between two hundredths: 8 ints, the first k
\* of them a and the others b (means 0.125 and 0.375), and single float
\* samples written 2.675, 0.025 and 0.075
Samples(n, k, a, b) ==
    [i \in 1..n |->
        {<<"averageRespirationValue", Some(PyInt(IF i <= k THEN a ELSE b))>>}]
HalfwayLists ==
    { Samples(8, 1, 1, 0), Samples(8, 3, 1, 0),
      << {<<"averageRespirationValue", Some(PyFloat(2675, 1000))>>} >>,
      << {<<"averageRespirationValue", Some(PyFloat(25, 1000))>>} >>,
      << {<<"averageRespirationValue", Some(PyFloat(75, 1000))>>} >> }
\* the samples 14, null, 16
ExampleSamples ==
    << {<<"averageRespirationValue", Some(PyInt(14))>>},
       {<<"averageRespirationValue", None>>},
       {<<"averageRespirationValue", Some(PyInt(16))>>} >>
\* the samples 16, 0.1, 0.1, whose float sum depends on the order
FloatSamples ==
    << {<<"averageRespirationValue", Some(PyInt(16))>>},
       {<<"averageRespirationValue", Some(PyFloat(1, 10))>>},
       {<<"averageRespirationValue", Some(PyFloat(1, 10))>>} >>
FetchedLists ==
    UNION {[1..n -> RespirationEntries] : n \in 0..MaxFetchLen}
    \cup HalfwayLists \cup {ExampleSamples, FloatSamples}
RespirationResults == {None} \cup {Some(l) : l \in FetchedLists}

----------------------------------------------------------------------------
(* get_average_respiration, lines 8-22 *)

\* variant: an entry without a value is counted as a zero sample
RECURSIVE AverageLoop_NoneAsZero(_, _, _, _)
AverageLoop_NoneAsZero(respiration_data, i, total, count) ==
    IF i > Len(respiration_data) THEN <<total, count>>
    ELSE LET value == Get(respiration_data[i], "averageRespirationValue")
         IN IF value = None
            THEN AverageLoop_NoneAsZero(respiration_data, i + 1, total, count + 1)
            ELSE IF total[1] = "int" /\ value[1][1] = "int"
            THEN AverageLoop_NoneAsZero(respiration_data, i + 1,
                                        PyInt(total[2] + value[1][2]), count + 1)
            ELSE AverageLoop_NoneAsZero(respiration_data, i + 1,
                                        PyFloatAdd(total, value[1]), count + 1)

\* the for loop of lines 14-19, from entry i on, with the running total/count
RECURSIVE AverageLoop(_, _, _, _)
AverageLoop(respiration_data, i, total, count) ==
    IF i > Len(respiration_data) THEN <<total, count>>
    ELSE LET value == Get(respiration_data[i], "averageRespirationValue")
         IN IF value = None
            THEN AverageLoop(respiration_data, i + 1, total, count)
            \* total += value: an int while total and value are ints,
            \* a float from the first float value on
            ELSE IF total[1] = "int" /\ value[1][1] = "int"
            THEN AverageLoop(respiration_data, i + 1,
                             PyInt(total[2] + value[1][2]), count + 1)
            ELSE AverageLoop(respiration_data, i + 1,
                             PyFloatAdd(total, value[1]), count + 1)

\* lines 20-22, for the total and count the loop ends with
AverageReturn(tc) == IF tc[2] = 0 THEN None ELSE Some(PyTrueDiv(tc[1], tc[2]))

get_average_respiration(respiration_data) ==
    IF Len(respiration_data) = 0 THEN None
    ELSE AverageReturn(AverageLoop(respiration_data, 1, PyInt(0), 0))

----------------------------------------------------------------------------
(* sync_health, lines 25-91 *)

HeartProperty == "Resting Heart Rate"
RespProperty == "Average Respiration"

\* the arguments of one notion.pages.create call
Page(database_id, start, property, number) ==
    [database_id |-> database_id, Date |-> start,
     property |-> property, number |-> number]

GarminCall(op, arg, ok) == [op |-> op, arg |-> arg, ok |-> ok]

Terminal == {"done", "raised"}

Init ==
    /\ env \in Environments
    /\ dotenv \in DotenvFiles
    /\ clock = StartDay
    /\ ticks = 0
    /\ pc = "load_config"
    /\ error = ""
    /\ garmin_email = None /\ garmin_password = None /\ notion_token = None
    /\ heart_db_id = None /\ resp_db_id = None
    /\ today_str = ""
    /\ hr_data = None
    /\ resp_data = None
    /\ avg_resp = None
    /\ calls = <<>>
    /\ creates = <<>>
    /\ pages = <<>>

\* variant: the account identifier is left out of the check
AllCredentials_NoEmail(email, password, token) ==
    TruthyStr(password) /\ TruthyStr(token)

\* line 44: all([garmin_email, garmin_password, notion_token])
AllCredentials(email, password, token) ==
    TruthyStr(email) /\ TruthyStr(password) /\ TruthyStr(token)

\* line 35, load_dotenv(): every name of the .env file that os.environ does
\* not hold yet is added to it (a name it holds, even empty, is kept)
load_dotenv(environ, file) ==
    [k \in DOMAIN environ |-> IF environ[k] # None THEN environ[k] ELSE file[k]]

\* lines 35-45: load .env, read the environment, raise ValueError when a
\* credential is missing
LoadConfig ==
    /\ pc = "load_config"
    /\ env' = load_dotenv(env, dotenv)
    /\ garmin_email' = env'.GARMIN_EMAIL
    /\ garmin_password' = env'.GARMIN_PASSWORD
    /\ notion_token' = env'.NOTION_TOKEN
    /\ heart_db_id' = env'.NOTION_HEART_RATE_DB_ID
    /\ resp_db_id' = env'.NOTION_RESPIRATION_DB_ID
    /\ IF AllCredentials(env'.GARMIN_EMAIL, env'.GARMIN_PASSWORD, env'.NOTION_TOKEN)
       THEN pc' = "login" /\ error' = error
       ELSE pc' = "raised" /\ error' = "ValueError"
    /\ UNCHANGED <<dotenv, clock, ticks, today_str, hr_data, resp_data, avg_resp,
                   calls, creates, pages>>

\* variant: a failed login is swallowed and the run goes on
Login_Caught ==
    /\ pc = "login"
    /\ \E ok \in BOOLEAN :
         /\ calls' = Append(calls, GarminCall("login", "", ok))
         /\ pc' = "fetch_hr" /\ error' = error
         /\ today_str' = Isoformat(clock)
    /\ UNCHANGED <<env, dotenv, clock, ticks, garmin_email, garmin_password, notion_token,
                   heart_db_id, resp_db_id, hr_data, resp_data, avg_resp,
                   creates, pages>>

\* lines 48-52: garmin.login() (may raise), Client(auth=...), today's date
Login ==
    /\ pc = "login"
    /\ \E ok \in BOOLEAN :
         /\ calls' = Append(calls, GarminCall("login", "", ok))
         /\ IF ok
            THEN pc' = "fetch_hr" /\ error' = error
                 /\ today_str' = Isoformat(clock)
            ELSE pc' = "raised" /\ error' = "GarminLoginError"
                 /\ today_str' = today_str
    /\ UNCHANGED <<env, dotenv, clock, ticks, garmin_email, garmin_password, notion_token,
                   heart_db_id, resp_db_id, hr_data, resp_data, avg_resp,
                   creates, pages>>

\* variant: the try/except around get_heart_rates is missing
FetchHeartRate_Propagates ==
    /\ pc = "fetch_hr"
    /\ \/ \E r \in HeartRateResults :
            /\ calls' = Append(calls, GarminCall("get_heart_rates", today_str, TRUE))
            /\ hr_data' = r
            /\ pc' = "upload_hr" /\ error' = error
       \/ /\ calls' = Append(calls, GarminCall("get_heart_rates", today_str, FALSE))
          /\ hr_data' = hr_data
          /\ pc' = "raised" /\ error' = "GarminFetchError"
    /\ UNCHANGED <<env, dotenv, clock, ticks, garmin_email, garmin_password,
                   notion_token, heart_db_id, resp_db_id, today_str, resp_data,
                   avg_resp, creates, pages>>

\* lines 55-59: get_heart_rates(today_str); any exception gives hr_data = None
FetchHeartRate ==
    /\ pc = "fetch_hr"
    /\ \/ \E r \in HeartRateResults :
            /\ calls' = Append(calls, GarminCall("get_heart_rates", today_str, TRUE))
            /\ hr_data' = r
       \/ /\ calls' = Append(calls, GarminCall("get_heart_rates", today_str, FALSE))
          /\ hr_data' = None
    /\ pc' = "upload_hr"
    /\ UNCHANGED <<env, dotenv, clock, ticks, error, garmin_email, garmin_password,
                   notion_token, heart_db_id, resp_db_id, today_str, resp_data,
                   avg_resp, creates, pages>>

\* line 69: resting_hr if resting_hr else 0
RestingOrZero(resting_hr) == IF TruthyNum(resting_hr) THEN resting_hr[1] ELSE 0

\* variant: the identifier is tested with "is not None"
HeartUploadWanted_IdNotNone == TruthyDict(hr_data) /\ heart_db_id # None

\* variant: a record without a resting value is skipped
HeartUploadWanted_SkipMissing ==
    /\ TruthyDict(hr_data) /\ TruthyStr(heart_db_id)
    /\ Get(hr_data[1], "restingHeartRate") # None

\* line 61
HeartUploadWanted == TruthyDict(hr_data) /\ TruthyStr(heart_db_id)

\* variant: a failed create of the heart-rate row is swallowed
UploadHeartRate_Caught ==
    /\ pc = "upload_hr"
    /\ IF TruthyDict(hr_data) /\ TruthyStr(heart_db_id)
       THEN LET resting_hr == Get(hr_data[1], "restingHeartRate")
                page == Page(heart_db_id[1], today_str, HeartProperty,
                             Num(RestingOrZero(resting_hr)))
            IN \E ok \in BOOLEAN :
                 /\ creates' = Append(creates, [page |-> page, ok |-> ok])
                 /\ pages' = IF ok THEN Append(pages, page) ELSE pages
                 /\ pc' = "fetch_resp" /\ error' = error
       ELSE pc' = "fetch_resp" /\ UNCHANGED <<error, creates, pages>>
    /\ UNCHANGED <<env, dotenv, clock, ticks, garmin_email, garmin_password, notion_token,
                   heart_db_id, resp_db_id, today_str, hr_data, resp_data,
                   avg_resp, calls>>

\* lines 61-72: create the heart-rate row; a failing create is not caught
UploadHeartRate ==
    /\ pc = "upload_hr"
    /\ IF HeartUploadWanted
       THEN LET resting_hr == Get(hr_data[1], "restingHeartRate")
                page == Page(heart_db_id[1], today_str, HeartProperty,
                             Num(RestingOrZero(resting_hr)))
            IN \E ok \in BOOLEAN :
                 /\ creates' = Append(creates, [page |-> page, ok |-> ok])
                 /\ IF ok
                    THEN pages' = Append(pages, page)
                         /\ pc' = "fetch_resp" /\ error' = error
                    ELSE pages' = pages
                         /\ pc' = "raised" /\ error' = "NotionCreateError"
       ELSE pc' = "fetch_resp" /\ UNCHANGED <<error, creates, pages>>
    /\ UNCHANGED <<env, dotenv, clock, ticks, garmin_email, garmin_password, notion_token,
                   heart_db_id, resp_db_id, today_str, hr_data, resp_data,
                   avg_resp, calls>>

\* variant: the try/except around get_respiration_data is missing
FetchRespiration_Propagates ==
    /\ pc = "fetch_resp"
    /\ \/ \E r \in RespirationResults :
            /\ calls' = Append(calls, GarminCall("get_respiration_data", today_str, TRUE))
            /\ resp_data' = r
            /\ pc' = "upload_resp" /\ error' = error
       \/ /\ calls' = Append(calls, GarminCall("get_respiration_data", today_str, FALSE))
          /\ resp_data' = resp_data
          /\ pc' = "raised" /\ error' = "GarminFetchError"
    /\ UNCHANGED <<env, dotenv, clock, ticks, garmin_email, garmin_password,
                   notion_token, heart_db_id, resp_db_id, today_str, hr_data,
                   avg_resp, creates, pages>>

\* lines 75-79: get_respiration_data(today_str); any exception gives resp_data = None
FetchRespiration ==
    /\ pc = "fetch_resp"
    /\ \/ \E r \in RespirationResults :
            /\ calls' = Append(calls, GarminCall("get_respiration_data", today_str, TRUE))
            /\ resp_data' = r
       \/ /\ calls' = Append(calls, GarminCall("get_respiration_data", today_str, FALSE))
          /\ resp_data' = None
    /\ pc' = "upload_resp"
    /\ UNCHANGED <<env, dotenv, clock, ticks, error, garmin_email, garmin_password,
                   notion_token, heart_db_id, resp_db_id, today_str, hr_data,
                   avg_resp, creates, pages>>

\* variant: the date is computed again for the second row
RespirationDate_Fresh == Isoformat(clock)

\* line 87: the date put on the respiration row
RespirationDate == today_str

\* line 81
RespUploadWanted == TruthyList(resp_data) /\ TruthyStr(resp_db_id)

\* get_average_respiration(l), and round(.., 2) of its result, for the lists l
\* a fetch may return; @@ has TLC tabulate the two functions once
AverageOf ==
    [l \in FetchedLists |-> get_average_respiration(l)] @@ <<>>
RoundedAverageOf ==
    [l \in FetchedLists |->
        IF AverageOf[l] = None THEN None ELSE Some(Round2(AverageOf[l][1]))] @@ <<>>

\* lines 81-91: average, then create the respiration row when there is an average
UploadRespiration ==
    /\ pc = "upload_resp"
    /\ IF RespUploadWanted
       THEN LET avg == AverageOf[resp_data[1]]
            IN /\ avg_resp' = avg
               /\ IF avg # None
                  THEN LET page == Page(resp_db_id[1], RespirationDate, RespProperty,
                                        RoundedAverageOf[resp_data[1]][1])
                       IN \E ok \in BOOLEAN :
                            /\ creates' = Append(creates, [page |-> page, ok |-> ok])
                            /\ IF ok
                               THEN pages' = Append(pages, page)
                                    /\ pc' = "done" /\ error' = error
                               ELSE pages' = pages
                                    /\ pc' = "raised" /\ error' = "NotionCreateError"
                  ELSE pc' = "done" /\ UNCHANGED <<error, creates, pages>>
       ELSE pc' = "done" /\ UNCHANGED <<error, avg_resp, creates, pages>>
    /\ UNCHANGED <<env, dotenv, clock, ticks, garmin_email, garmin_password, notion_token,
                   heart_db_id, resp_db_id, today_str, hr_data, resp_data, calls>>

\* the environment: midnight passes while the run is in progress
Tick ==
    /\ pc \notin Terminal
    /\ ticks < MaxTicks
    /\ clock' = NextDay(clock)
    /\ ticks' = ticks + 1
    /\ UNCHANGED <<env, dotenv, pc, error, garmin_email, garmin_password, notion_token,
                   heart_db_id, resp_db_id, today_str, hr_data, resp_data,
                   avg_resp, calls, creates, pages>>

Next ==
    \/ LoadConfig
    \/ Login
    \/ FetchHeartRate
    \/ UploadHeartRate
    \/ FetchRespiration
    \/ UploadRespiration
    \/ Tick

Spec == Init /\ [][Next]_vars

----------------------------------------------------------------------------
(* get_average_respiration on its own: one call on an arbitrary list *)

InitAvg ==
    /\ env = NoDotenv
    /\ dotenv = NoDotenv
    /\ clock = StartDay
    /\ ticks = 0
    /\ pc = "avg_call"
    /\ error = ""
    /\ garmin_email = None /\ garmin_password = None /\ notion_token = None
    /\ heart_db_id = None /\ resp_db_id = None
    /\ today_str = ""
    /\ hr_data = None
    /\ resp_data \in {Some(l) : l \in RespirationLists}
    /\ avg_resp = None
    /\ calls = <<>>
    /\ creates = <<>>
    /\ pages = <<>>

\* avg_resp = get_average_respiration(resp_data)
ApplyAverage ==
    /\ pc = "avg_call"
    /\ avg_resp' = get_average_respiration(resp_data[1])
    /\ pc' = "avg_returned"
    /\ UNCHANGED <<env, dotenv, clock, ticks, error, garmin_email, garmin_password,
                   notion_token, heart_db_id, resp_db_id, today_str, hr_data,
                   resp_data, calls, creates, pages>>

NextAvg == ApplyAverage

SpecAvg == InitAvg /\ [][NextAvg]_vars

----------------------------------------------------------------------------
(* Properties *)

CallsOf(op) == SelectSeq(calls, LAMBDA c : c.op = op)
CreatesOf(property) == SelectSeq(creates, LAMBDA c : c.page.property = property)
PagesOf(property) == SelectSeq(pages, LAMBDA p : p.property = property)
PagesIn(database_id) == SelectSeq(pages, LAMBDA p : p.database_id = database_id)

\* the value configured under a name: that of the process environment, else
\* that of the .env file
Configured(name) == IF env[name] # None THEN env[name] ELSE dotenv[name]

HeartConfigured == TruthyStr(Configured("NOTION_HEART_RATE_DB_ID"))
RespConfigured == TruthyStr(Configured("NOTION_RESPIRATION_DB_ID"))

FetchFailed(op) == \E i \in 1..Len(calls) : calls[i].op = op /\ ~calls[i].ok
CreateFailed(property) ==
    \E i \in 1..Len(creates) :
        creates[i].page.property = property /\ ~creates[i].ok

\* the run has left the heart-rate upload step without an error in it
PastHeartUpload ==
    \/ pc \in {"fetch_resp", "upload_resp", "done"}
    \/ pc = "raised" /\ CreatesOf(RespProperty) # <<>>
\* the run has left the respiration upload step (with or without a failed create)
PastRespUpload ==
    \/ pc = "done"
    \/ pc = "raised" /\ CreatesOf(RespProperty) # <<>>

\* the values that are present in a list of samples, in order
RECURSIVE PresentValues(_)
PresentValues(l) ==
    IF l = <<>> THEN <<>>
    ELSE LET rest == PresentValues(Tail(l))
             hit == {p \in Head(l) : p[1] = "averageRespirationValue" /\ p[2] # None}
         IN IF hit = {} THEN rest
            ELSE <<(CHOOSE p \in hit : TRUE)[2][1]>> \o rest

\* the sum of the decimals the samples are written as, as a fraction
RECURSIVE SumSeq(_)
SumSeq(q) ==
    IF q = <<>> THEN <<0, 1>>
    ELSE LET rest == SumSeq(Tail(q))
         IN <<Head(q)[2] * rest[2] + rest[1] * Head(q)[3], Head(q)[3] * rest[2]>>

AllInts(q) == \A i \in 1..Len(q) : q[i][1] = "int"

\* u <= v
BigLeq(u, v) ==
    \/ Len(u) < Len(v)
    \/ /\ Len(u) = Len(v)
       /\ \/ u = v
          \/ \E i \in 1..Len(u) :
                /\ u[i] < v[i]
                /\ \A j \in (i + 1)..Len(u) : u[j] = v[j]

\* |a - b| <= t
CloseTo(a, b, t) == BigLeq(a, BigAdd(b, t)) /\ BigLeq(b, BigAdd(a, t))

\* the float x is within halves/2 units of its last binary digit of
\* total / count
MeanWithin(x, total, count, halves) ==
    /\ x[2] <= 0
    /\ CloseTo(BigMulSmall(x[1], 2 * count * total[2]),
               BigShl(BigFromInt(total[1]), 1 - x[2]),
               BigFromInt(halves * count * total[2]))

\* result is what the mean of the present values may be: None when there is
\* none, else a float within halves/2 units in the last place of their mean
MeanOrNone(result, present, halves) ==
    /\ present = <<>> => result = None
    /\ present # <<>>
       => /\ result # None
          /\ result[1][1] # <<>> => BigBitLen(result[1][1]) = MantissaBits
          /\ MeanWithin(result[1], SumSeq(present), Len(present), halves)

Orderings(n) == {f \in [1..n -> 1..n] : \A i \in 1..n : \E j \in 1..n : f[j] = i}
Reorder(l, f) == [i \in 1..Len(l) |-> l[f[i]]]

\* number is the multiple of 1/100 nearest to total / count
NearestHundredth(number, total, count) ==
    /\ 100 % number[2] = 0
    /\ LET h == number[1] * (100 \div number[2])
           diff == h * count * total[2] - 100 * total[1]
       IN 2 * (IF diff < 0 THEN -diff ELSE diff) <= count * total[2]

IsoDays == {"2024-12-31", "2025-01-01", "2025-01-02", "2025-01-03"}

\* C1: when GARMIN_EMAIL, GARMIN_PASSWORD or NOTION_TOKEN is missing, whatever
\* the other values are, the run ends with the configuration error before any
\* network call: no login, no fetch, no row created in either table.
C1_MissingCredentialStopsBeforeNetwork ==
    (\/ Configured("GARMIN_EMAIL") = None
     \/ Configured("GARMIN_PASSWORD") = None
     \/ Configured("NOTION_TOKEN") = None)
    => /\ calls = <<>> /\ creates = <<>> /\ pages = <<>>
       /\ pc \in {"load_config", "raised"}
       /\ pc = "raised" => error = "ValueError"

C1_Witness ==
    /\ pc = "raised" /\ error = "ValueError"
    /\ Configured("GARMIN_EMAIL") = None
    /\ TruthyStr(Configured("GARMIN_PASSWORD")) /\ TruthyStr(Configured("NOTION_TOKEN"))
    /\ HeartConfigured /\ RespConfigured

\* C2: when login fails the failure is not caught: the run ends with that
\* error, neither fetch call is made and no row is created in either table.
C2_LoginFailureIsFatal ==
    FetchFailed("login")
    => /\ pc = "raised" /\ error = "GarminLoginError"
       /\ CallsOf("get_heart_rates") = <<>>
       /\ CallsOf("get_respiration_data") = <<>>
       /\ creates = <<>> /\ pages = <<>>

C2_Witness ==
    /\ pc = "raised" /\ error = "GarminLoginError"
    /\ FetchFailed("login") /\ HeartConfigured /\ RespConfigured

\* C3: for each metric, when its table identifier is not configured no
\* row-creation call is made for it whatever its fetch returns; the run is not
\* aborted by that, and the other metric is fetched and uploaded as usual.
C3_MissingTableDisablesOnlyItsUpload ==
    /\ ~HeartConfigured
       => /\ CreatesOf(HeartProperty) = <<>>
          /\ pc = "raised" /\ error \notin {"ValueError", "GarminLoginError"}
             => Len(CallsOf("get_respiration_data")) = 1
          /\ pc = "done" /\ TruthyList(resp_data) /\ RespConfigured
                /\ PresentValues(resp_data[1]) # <<>>
             => Len(PagesOf(RespProperty)) = 1
    /\ ~RespConfigured
       => /\ CreatesOf(RespProperty) = <<>>
          /\ pc = "raised" /\ error \notin {"ValueError", "GarminLoginError"}
             => CreateFailed(HeartProperty)
          /\ PastHeartUpload /\ TruthyDict(hr_data) /\ HeartConfigured
             => Len(PagesOf(HeartProperty)) = 1
          /\ pc = "done" => Len(CallsOf("get_respiration_data")) = 1

C3_Witness ==
    /\ pc = "done" /\ ~HeartConfigured /\ TruthyDict(hr_data)
    /\ Len(PagesOf(RespProperty)) = 1 /\ Len(pages) = 1

\* C4: a failing get_heart_rates or get_respiration_data is caught where it is
\* called: the metric has no data and gets no row, and the run goes on; after
\* a failed heart-rate fetch the respiration fetch is still made and, with
\* data, identifier and mean present, so is the respiration upload; a failed
\* fetch never ends the run with an error.
C4_FetchFailureIsSwallowed ==
    /\ error \in {"", "ValueError", "GarminLoginError", "NotionCreateError"}
    /\ FetchFailed("get_heart_rates")
       => /\ hr_data = None
          /\ CreatesOf(HeartProperty) = <<>>
          /\ pc \in {"upload_hr", "fetch_resp", "upload_resp", "done"}
             \/ (pc = "raised" /\ CreateFailed(RespProperty))
          /\ pc \in {"upload_resp", "done", "raised"}
             => Len(CallsOf("get_respiration_data")) = 1
          /\ PastRespUpload /\ TruthyList(resp_data) /\ RespConfigured
                /\ PresentValues(resp_data[1]) # <<>>
             => Len(CreatesOf(RespProperty)) = 1
    /\ FetchFailed("get_respiration_data")
       => /\ resp_data = None
          /\ CreatesOf(RespProperty) = <<>>
          /\ pc \in {"upload_resp", "done"}

C4_Witness ==
    /\ pc = "done" /\ FetchFailed("get_heart_rates")
    /\ Len(PagesOf(RespProperty)) = 1

\* the list l with the entries that have no value (absent or null) left out
WithoutMissing(l) ==
    [i \in 1..Len(PresentValues(l)) |->
        {<<"averageRespirationValue", Some(PresentValues(l)[i])>>}]

HeartRowFor(record) ==
    LET resting == Get(record, "restingHeartRate")
        made == CreatesOf(HeartProperty)
    IN /\ Len(made) = 1
       /\ made[1].page.database_id = Configured("NOTION_HEART_RATE_DB_ID")[1]
       /\ made[1].page.Date = today_str /\ today_str \in IsoDays
       /\ made[1].page.number = IF resting # None THEN <<resting[1], 1>> ELSE <<0, 1>>
       /\ made[1].ok => PagesOf(HeartProperty) = <<made[1].page>>

C6_Original_EveryRecordUploaded ==
    (hr_data # None /\ pc # "upload_hr" /\ HeartConfigured)
    => HeartRowFor(hr_data[1])

\* C6 amended: the same for every heart-rate record that has at least one
\* field (an empty record counts as no data and gets no row).
C6_NonEmptyRecordUploaded ==
    /\ (hr_data # None /\ hr_data[1] # {} /\ pc # "upload_hr" /\ HeartConfigured)
       => HeartRowFor(hr_data[1])
    /\ (hr_data # None /\ hr_data[1] = {}) => CreatesOf(HeartProperty) = <<>>

C6_Witness ==
    /\ pc = "done"
    /\ hr_data = Some({<<"restingHeartRate", None>>})
    /\ Len(PagesOf(HeartProperty)) = 1
    /\ PagesOf(HeartProperty)[1].number = <<0, 1>>

\* C7: a respiration row is created only if the fetch returned data, the
\* respiration table identifier is configured and the mean is present; then
\* exactly one row is created in the respiration table with today's date and
\* the mean rounded to two decimals (14, missing, 16 give 15.0).  Without data,
\* or with every value missing, no row is created and no error is raised.
C7_RespirationRow ==
    LET made == CreatesOf(RespProperty)
        present == IF TruthyList(resp_data) THEN PresentValues(resp_data[1]) ELSE <<>>
    IN /\ Len(made) <= 1
       /\ made # <<>> => TruthyList(resp_data) /\ RespConfigured /\ present # <<>>
       /\ (PastRespUpload /\ TruthyList(resp_data) /\ RespConfigured /\ present # <<>>)
          => /\ Len(made) = 1
             /\ made[1].page.database_id = Configured("NOTION_RESPIRATION_DB_ID")[1]
             /\ made[1].page.Date = today_str /\ today_str \in IsoDays
             /\ NearestHundredth(made[1].page.number, SumSeq(present), Len(present))
             /\ resp_data[1] = ExampleSamples => made[1].page.number = <<15, 1>>
             /\ made[1].ok => pc = "done" /\ PagesOf(RespProperty) = <<made[1].page>>
       /\ (pc \in Terminal /\ calls # <<>> /\ Len(CallsOf("get_respiration_data")) = 1
             /\ present = <<>>)
          => pc = "done" /\ PagesOf(RespProperty) = <<>> /\ error = ""

C7_Witness ==
    /\ pc = "done"
    /\ resp_data = Some(ExampleSamples)
    /\ Len(PagesOf(RespProperty)) = 1
    /\ PagesOf(RespProperty)[1].number = <<15, 1>>

\* C8: row-creation failures are not caught and the uploads are not
\* transactional: a failed heart-rate create ends the run with that error and
\* the respiration fetch and upload are never attempted; a failed respiration
\* create ends the run with that error and a heart-rate row created earlier in
\* the run stays created.
C8_CreateFailureIsFatalNoRollback ==
    /\ CreateFailed(HeartProperty)
       => /\ pc = "raised" /\ error = "NotionCreateError"
          /\ CallsOf("get_respiration_data") = <<>>
          /\ CreatesOf(RespProperty) = <<>>
          /\ pages = <<>>
    /\ CreateFailed(RespProperty)
       => /\ pc = "raised" /\ error = "NotionCreateError"
          /\ PagesOf(RespProperty) = <<>>
          /\ (TruthyDict(hr_data) /\ HeartConfigured) => Len(PagesOf(HeartProperty)) = 1
    /\ \A i \in 1..Len(creates) :
          creates[i].ok => \E j \in 1..Len(pages) : pages[j] = creates[i].page

C8_Witness ==
    /\ pc = "raised" /\ CreateFailed(RespProperty)
    /\ Len(PagesOf(HeartProperty)) = 1

\* C9 as stated: a run either completes all the steps and reaches Done, or is
\* ended by an unhandled configuration or authentication error; nothing else.
C9_Original_OnlyConfigOrAuthErrors ==
    /\ pc \in {"load_config", "login", "fetch_hr", "upload_hr", "fetch_resp",
               "upload_resp", "done", "raised"}
    /\ pc = "raised" => error \in {"ValueError", "GarminLoginError"}
    /\ pc # "raised" => error = ""

\* C9 amended: a run either completes all the steps and reaches Done, or is
\* ended by an unhandled configuration error, authentication error or
\* row-creation error; nothing else.
C9_DoneOrFatalError ==
    /\ pc \in {"load_config", "login", "fetch_hr", "upload_hr", "fetch_resp",
               "upload_resp", "done", "raised"}
    /\ pc # "raised" => error = ""
    /\ pc = "raised"
       => \/ error = "ValueError" /\ calls = <<>> /\ creates = <<>>
          \/ error = "GarminLoginError" /\ FetchFailed("login") /\ creates = <<>>
          \/ error = "NotionCreateError" /\ creates # <<>>
                /\ ~creates[Len(creates)].ok
    /\ pc = "done"
       => /\ Len(calls) = 3
          /\ calls[1].op = "login" /\ calls[1].ok
          /\ calls[2].op = "get_heart_rates"
          /\ calls[3].op = "get_respiration_data"
          /\ \A i \in 1..Len(creates) : creates[i].ok

C9_Witness ==
    /\ pc = "raised" /\ error = "NotionCreateError"
    /\ Len(calls) = 3 /\ Len(pages) = 1

\* C10 as stated: nothing is retried or repeated within a run: login,
\* get_heart_rates and get_respiration_data are each called at most once, at
\* most one row is created per table, each row goes to its own table and never
\* to the other metric's, and both rows carry the one date string computed for
\* the run.
C10_Original_OneRowPerTable ==
    /\ Len(CallsOf("login")) <= 1
    /\ Len(CallsOf("get_heart_rates")) <= 1
    /\ Len(CallsOf("get_respiration_data")) <= 1
    /\ \A id \in {"db_a", "db_b"} : Len(PagesIn(id)) <= 1
    /\ \A i \in 1..Len(creates) :
          /\ creates[i].page.property = HeartProperty
             => /\ creates[i].page.database_id
                      = Configured("NOTION_HEART_RATE_DB_ID")[1]
                /\ Some(creates[i].page.database_id)
                      # Configured("NOTION_RESPIRATION_DB_ID")
          /\ creates[i].page.property = RespProperty
             => /\ creates[i].page.database_id
                      = Configured("NOTION_RESPIRATION_DB_ID")[1]
                /\ Some(creates[i].page.database_id)
                      # Configured("NOTION_HEART_RATE_DB_ID")
          /\ creates[i].page.Date = today_str
    /\ \A i, j \in 1..Len(pages) : pages[i].Date = pages[j].Date
    /\ \A i \in 1..Len(calls) : calls[i].op # "login" => calls[i].arg = today_str

\* C10: nothing is retried or repeated within a run: login, get_heart_rates and
\* get_respiration_data are each called at most once, at most one row is
\* created per metric, each row goes to the table configured for its metric,
\* and both rows carry the one date string computed for the run.  When the two
\* table identifiers differ that is at most one row per table; when the same
\* identifier is configured for both metrics, both rows go to that one table.
C10_NothingRepeated ==
    /\ Len(CallsOf("login")) <= 1
    /\ Len(CallsOf("get_heart_rates")) <= 1
    /\ Len(CallsOf("get_respiration_data")) <= 1
    /\ Len(CreatesOf(HeartProperty)) <= 1
    /\ Len(CreatesOf(RespProperty)) <= 1
    /\ \A i \in 1..Len(creates) :
          /\ creates[i].page.property = HeartProperty
             => creates[i].page.database_id = Configured("NOTION_HEART_RATE_DB_ID")[1]
          /\ creates[i].page.property = RespProperty
             => creates[i].page.database_id = Configured("NOTION_RESPIRATION_DB_ID")[1]
          /\ creates[i].page.Date = today_str
    /\ Configured("NOTION_HEART_RATE_DB_ID") # Configured("NOTION_RESPIRATION_DB_ID")
       => \A id \in {"db_a", "db_b"} : Len(PagesIn(id)) <= 1
    /\ Configured("NOTION_HEART_RATE_DB_ID") = Configured("NOTION_RESPIRATION_DB_ID")
       => \A i, j \in 1..Len(pages) :
             /\ pages[i].database_id = pages[j].database_id
             /\ i # j => pages[i].property # pages[j].property
    /\ \A i, j \in 1..Len(pages) : pages[i].Date = pages[j].Date
    /\ \A i \in 1..Len(calls) : calls[i].op # "login" => calls[i].arg = today_str

C10_Witness ==
    /\ pc = "done" /\ Len(pages) = 2
    /\ FetchFailed("get_heart_rates") = FALSE
    /\ Isoformat(clock) # today_str
    /\ pages[1].database_id # pages[2].database_id

====
